---- MODULE Spec2Model ----
(***************************************************************************)
(* Model of the background exhibit-assembly pipeline of the Visa Exhibit   *)
(* Generator: generate_exhibits_v2 / process_func (src/app.py), the step   *)
(* state machine of the Background Processor it drives, the polling        *)
(* presenter, and the exhibit numbering helpers (letters, numbers,         *)
(* to_roman).                                                              *)
(*                                                                         *)
(* Spec runs the pipeline for every combination of the configuration       *)
(* toggles with numbering-style letters; the style only selects the        *)
(* numbering function, which SpecNum runs for all three styles.            *)
(* components/background_processor.py is not part of the sources at hand:  *)
(* the step state machine and the worker wrapper follow the design         *)
(* document (sections 4.1 and 4.2).                                        *)
(***************************************************************************)
EXTENDS Integers, Sequences, FiniteSets, TLC

(***************************************************************************)
(* Bounds                                                                  *)
(***************************************************************************)
MaxFiles == 1     \* uploaded files in the session
MaxZip == 1       \* archive-extracted paths in the session
MaxFaults == 1    \* collaborator calls of one run that fail (raise or report failure)
MaxPos == 56      \* input positions numbered under SpecNum
MaxRoman == 1200  \* largest argument to_roman is called on under SpecNum

None == "None"                \* an unset string-valued field
Unset == [ unset |-> TRUE ]   \* an unset record-valued field

(***************************************************************************)
(* Inputs                                                                  *)
(***************************************************************************)
\* st.session_state.uploaded_files: name and page count of each upload
FilePool ==
  << [name |-> "a.pdf", stem |-> "a", pages |-> 1],
     [name |-> "b.pdf", stem |-> "b", pages |-> 2],
     [name |-> "c.pdf", stem |-> "c", pages |-> 3],
     [name |-> "d.pdf", stem |-> "d", pages |-> 4] >>

\* st.session_state.zip_files: a recorded path is absolute or not, and the
\* file behind it exists or not when the extract step reads it
ZipPaths ==
  { [name |-> "z.pdf", stem |-> "z", pages |-> 5, isabs |-> TRUE, exists |-> TRUE],
    [name |-> "gone.pdf", stem |-> "gone", pages |-> 6, isabs |-> TRUE, exists |-> FALSE],
    [name |-> "rel.pdf", stem |-> "rel", pages |-> 7, isabs |-> FALSE, exists |-> TRUE] }

RECURSIVE SeqsUpTo(_, _)
SeqsUpTo(S, n) ==
  IF n = 0 THEN { <<>> }
  ELSE SeqsUpTo(S, n - 1) \cup
       { Append(s, x) : s \in { t \in SeqsUpTo(S, n - 1) : Len(t) = n - 1 }, x \in S }

\* the configuration object built by render_sidebar and read by process_func
Configs ==
  [ enable_compression : BOOLEAN,
    numbering_style : {"letters", "numbers", "roman"},
    add_toc : BOOLEAN, add_cover_letter : BOOLEAN,
    add_filing_instructions : BOOLEAN, merge_pdfs : BOOLEAN ]

\* messages a raised fault can carry (str(e) may be empty)
FaultMessages == { "", "boom" }

(***************************************************************************)
(* Characters and strings                                                  *)
(***************************************************************************)
\* chr of a code point in the printable ASCII range 65 to 126; the grave
\* accent (code 96) cannot be written in a string literal of this language
\* and is spelled out
AsciiFrom65 ==
  << "A","B","C","D","E","F","G","H","I","J","K","L","M",
     "N","O","P","Q","R","S","T","U","V","W","X","Y","Z",
     "[","\\","]","^","_","<grave>",
     "a","b","c","d","e","f","g","h","i","j","k","l","m",
     "n","o","p","q","r","s","t","u","v","w","x","y","z",
     "{","|","}","~" >>

chr(c) == AsciiFrom65[c - 64]

Digits == << "0","1","2","3","4","5","6","7","8","9" >>

\* str(n) for a non-negative integer
RECURSIVE str(_)
str(n) == IF n < 10 THEN Digits[n + 1] ELSE str(n \div 10) \o Digits[(n % 10) + 1]

(***************************************************************************)
(* to_roman                                                                *)
(***************************************************************************)
val == << 1000, 900, 500, 400, 100, 90, 50, 40, 10, 9, 5, 4, 1 >>
syms == << "M", "CM", "D", "CD", "C", "XC", "L", "XL", "X", "IX", "V", "IV", "I" >>

RECURSIVE Repeat(_, _)
Repeat(s, k) == IF k <= 0 THEN "" ELSE s \o Repeat(s, k - 1)

\* an iteration that passes over the entry 4, "IV"
RomanIterNoFour(l) ==
  LET k == IF l.i = 11 THEN 0 ELSE l.num \div val[l.i + 1]
  IN [ num |-> l.num - k * val[l.i + 1],
       i |-> l.i + 1,
       roman_num |-> l.roman_num \o Repeat(syms[l.i + 1], k) ]

\* one iteration of `while num > 0`: the for loop appends syms[i]
\* num // val[i] times and subtracts val[i] each time, then i += 1.
\* l.i is the 0-based index of the code.
RomanIter(l) ==
  LET k == l.num \div val[l.i + 1]
  IN [ num |-> l.num - k * val[l.i + 1],
       i |-> l.i + 1,
       roman_num |-> l.roman_num \o Repeat(syms[l.i + 1], k) ]

\* roman_num = ''; i = 0
RomanStart(num) == [ num |-> num, i |-> 0, roman_num |-> "" ]

RECURSIVE RomanRun(_)
RomanRun(l) == IF l.num > 0 THEN RomanRun(RomanIter(l)) ELSE l.roman_num

to_roman(num) == RomanRun(RomanStart(num))

(***************************************************************************)
(* Exhibit numbering (process_func, number step)                           *)
(***************************************************************************)
\* letters that wrap around after Z
LettersNumWrap(i) == chr(65 + (i % 26))

\* chr(65 + i) if i < 26 else f"A{chr(65 + i - 26)}"
LettersNum(i) == IF i < 26 THEN chr(65 + i) ELSE "A" \o chr(65 + i - 26)

ExhibitNum(style, i) ==
  IF style = "letters" THEN LettersNum(i)
  ELSE IF style = "numbers" THEN str(i + 1)
  ELSE to_roman(i + 1)

(***************************************************************************)
(* State                                                                   *)
(***************************************************************************)
VARIABLES
  config,              \* configuration object of the session
  files,               \* st.session_state.uploaded_files
  zip_files,           \* st.session_state.zip_files
  session,             \* st.session_state values written by the pipeline
  steps,               \* Processing State: step name -> status/progress/error
  overall_status,      \* Processing State: idle, running, complete, error
  result,              \* Processing State: Result payload or None
  error_message,       \* Processing State: message of the fatal fault or None
  pc,                  \* position of the worker inside process_func
  idx,                 \* loop index i of the current per-item loop
  exc,                 \* message of the fault propagating out of process_func
  file_paths,          \* process_func local: materialized working files
  compression_results, \* process_func local
  numbered_files,      \* process_func local
  exhibit_list,        \* process_func local
  res,                 \* process_func local `result` dict
  faults,              \* history: collaborator calls of this run that failed
  last_call,           \* history: the last call made on the processor
  touch_order,         \* history: steps in the order they were first touched
  obs,                 \* what the polling presenter read last
  ui,                  \* presenter: stage, script position, widgets
  io,                  \* uploaded files' read positions; bytes written
  up,                  \* upload page: uploaded_meta and the two indices
  n_style, n_pos, n_nums, \* SpecNum: style, next position, numbers assigned
  rl                   \* SpecNum: the to_roman call in progress

vars == << config, files, zip_files, session, steps, overall_status, result,
           error_message, pc, idx, exc, file_paths, compression_results,
           numbered_files, exhibit_list, res, faults, last_call, touch_order,
           obs, ui, io, up, n_style, n_pos, n_nums, rl >>

inputVars == << config, files, zip_files >>
procVars == << steps, overall_status, result, error_message >>
localVars == << file_paths, compression_results, numbered_files, exhibit_list, res >>
numVars == << n_style, n_pos, n_nums, rl >>

StepOrder == << "extract", "compress", "number", "toc", "cover",
                "filing_instructions", "merge", "finalize" >>
StepNames == { StepOrder[k] : k \in 1..Len(StepOrder) }

(***************************************************************************)
(* Step state machine and Background Processor                             *)
(***************************************************************************)
NoSteps == [ n \in StepNames |-> [ status |-> "pending", progress |-> 0,
                                   error_message |-> None ] ]

\* update_step(name, status, error_message?): sets the status; on error
\* attaches the message; running on a step already complete is ignored
update_step(st, name, status, msg) ==
  IF status = "running" /\ st[name].status = "complete" THEN st
  ELSE [ st EXCEPT ![name].status = status,
                   ![name].error_message =
                      IF status = "error" THEN msg ELSE st[name].error_message ]

\* complete_step(name): shorthand for update_step(name, complete)
complete_step(st, name) == update_step(st, name, "complete", None)

Clamp(p) == IF p < 0 THEN 0 ELSE IF p > 100 THEN 100 ELSE p

\* set_step_progress(name, percent): only while the step is running
set_step_progress(st, name, percent) ==
  IF st[name].status = "running"
  THEN [ st EXCEPT ![name].progress = Clamp(percent) ]
  ELSE st

Touch(name) ==
  IF steps[name].status = "pending" THEN Append(touch_order, name) ELSE touch_order

CallUpdate(name, status, msg) ==
  /\ steps' = update_step(steps, name, status, msg)
  /\ last_call' = [ op |-> "update_step", name |-> name, before |-> steps[name].status ]
  /\ touch_order' = Touch(name)

CallComplete(name) ==
  /\ steps' = complete_step(steps, name)
  /\ last_call' = [ op |-> "complete_step", name |-> name, before |-> steps[name].status ]
  /\ touch_order' = Touch(name)

CallProgress(name, percent) ==
  /\ steps' = set_step_progress(steps, name, percent)
  /\ last_call' = [ op |-> "set_step_progress", name |-> name, before |-> steps[name].status ]
  /\ touch_order' = touch_order

NoCall == [ op |-> "none", name |-> None, before |-> None ]

\* read accessors of the processor
is_running == overall_status = "running"
is_complete == overall_status = "complete"
has_error == overall_status = "error"

(***************************************************************************)
(* process_func: faults                                                    *)
(***************************************************************************)
\* the fault's own message, re-raised as it is
FatalMessageBare(e) == e

\* except Exception as e: raise RuntimeError(f"Failed to process exhibits: {e}")
FatalMessage(e) == "Failed to process exhibits: " \o e

\* bookkeeping of failing collaborator calls
CanFail == Cardinality(faults) < MaxFaults
Failed(site) == faults \cup { [ site |-> site, item |-> idx ] }
FaultSites == { f.site : f \in faults }

\* a fault raised inside the try block at `site`
Fault(site, e) ==
  /\ CanFail
  /\ pc' = "raise"
  /\ exc' = FatalMessage(e)
  /\ faults' = Failed(site)

InitResult == [ exhibits |-> << >>, total_pages |-> 0, original_size |-> 0,
                compressed_size |-> 0, output_file |-> Unset,
                cover_letter_path |-> None, filing_instructions_path |-> None ]

InitSession == [ exhibit_list |-> << >>, compression_stats |-> Unset,
                 exhibits_generated |-> FALSE, output_file |-> Unset,
                 cover_letter_path |-> None,
                 filing_instructions_path |-> None,
                 processing_complete |-> FALSE ]

\* every uploaded file is at read position 0 when the Generate stage is
\* entered (the earlier stages seek(0) after each read); nothing is written
InitIo == [ pos |-> [ k \in 1..Len(files) |-> 0 ], written |-> << >>,
            disk |-> {} ]

\* the content of an uploaded file, and the read position at its end (its
\* length, one unit per page)
Bytes(f) == f.stem \o "#" \o str(f.pages)
EndOf(f) == f.pages

\* open(path, 'wb').write(bytes) and shutil.copy(src, path) in the working
\* area: the file at `path` holds `bytes`, whatever it held before
WriteFile(disk, path, bytes) ==
  { e \in disk : e.path # path } \cup { [ path |-> path, bytes |-> bytes ] }

\* file.read(): the bytes from the read position to the end
Read(f, pos) == IF pos = 0 THEN Bytes(f) ELSE ""

\* one entry of st.session_state.uploaded_meta
MetaOf(f) == [ name |-> f.name, rotation |-> 0, pages |-> f.pages ]

NoDelete == [ called |-> FALSE ]

\* the upload page after its "ensure metadata" block: one meta entry per
\* uploaded file, nothing previewed or selected (both indices None, << >>).  `before` is history: the
\* argument of the last delete_file call and the values it found
InitUp == [ uploaded_meta |-> [ k \in 1..Len(files) |-> MetaOf(files[k]) ],
            preview_file_index |-> << >>,
            selected_upload_index |-> << >>,
            before |-> NoDelete ]

\* the presenter on the Generate stage, between two script runs, with no
\* button on the page and no widget event
\* button pending. `overlap` is history: a run was started over a live one
InitUi == [ stage |-> "generate", at |-> "idle", button |-> "none",
            click |-> "none", overlap |-> FALSE ]

NoLoop == [ active |-> FALSE, probe |-> FALSE, arg |-> 0,
            l |-> [ num |-> 0, i |-> 0, roman_num |-> "" ] ]

NoObs == [ status |-> "idle", has_result |-> FALSE, finalize |-> "pending" ]

IdleProcessor ==
  /\ steps = NoSteps
  /\ overall_status = "idle"
  /\ result = Unset
  /\ error_message = None
  /\ pc = "idle"
  /\ idx = 0
  /\ exc = None
  /\ file_paths = << >>
  /\ compression_results = << >>
  /\ numbered_files = << >>
  /\ exhibit_list = << >>
  /\ res = InitResult
  /\ faults = {}
  /\ last_call = NoCall
  /\ touch_order = << >>
  /\ obs = NoObs
  /\ session = InitSession
  /\ ui = InitUi
  /\ io = InitIo
  /\ up = InitUp

Init ==
  /\ config \in { c \in Configs : c.numbering_style = "letters" }
  /\ files \in { SubSeq(FilePool, 1, n) : n \in 0..MaxFiles }
  /\ zip_files \in SeqsUpTo(ZipPaths, MaxZip)
  /\ IdleProcessor
  /\ n_style = "letters"
  /\ n_pos = 0
  /\ n_nums = << >>
  /\ rl = NoLoop

(***************************************************************************)
(* generate_exhibits_v2                                                    *)
(***************************************************************************)
\* processor.reset(); ...; processor.start_processing(process_func).
\* render_stage_5_generate calls it from the initial branch and from the
\* retry button of the has_error branch.
\* processor.reset() and processor.start_processing(process_func): the
\* Processing State and the worker's locals of a fresh run
ResetAndStart ==
  /\ steps' = NoSteps
  /\ overall_status' = "running"
  /\ result' = Unset
  /\ error_message' = None
  /\ pc' = "mkdtemp"
  /\ idx' = 0
  /\ exc' = None
  /\ file_paths' = << >>
  /\ compression_results' = << >>
  /\ numbered_files' = << >>
  /\ exhibit_list' = << >>
  /\ res' = InitResult
  /\ faults' = {}
  /\ last_call' = [ op |-> "reset", name |-> None, before |-> None ]
  /\ touch_order' = << >>

GenerateExhibits ==
  /\ has_error \/ (~is_running /\ ~is_complete)
  /\ ResetAndStart
  /\ UNCHANGED << inputVars, session, obs, ui, io, up, numVars >>

(***************************************************************************)
(* process_func: extract                                                   *)
(***************************************************************************)
\* tmp_dir = tempfile.mkdtemp(), before the try block
Mkdtemp ==
  /\ pc = "mkdtemp"
  /\ \/ /\ pc' = "extract_begin"
        /\ UNCHANGED << exc, faults >>
     \/ /\ CanFail
        /\ pc' = "raise"
        /\ exc' = "No space left on device"
        /\ faults' = Failed("mkdtemp")
  /\ UNCHANGED << inputVars, session, procVars, idx, localVars, last_call,
                  touch_order, obs, ui, io, up, numVars >>

\* the working copy of an input in tmp_dir
WorkFile(f) == [ name |-> f.name, stem |-> f.stem, pages |-> f.pages ]

Max(a, b) == IF a >= b THEN a ELSE b

\* the percent passed to set_step_progress after item i of n, counting the
\* items still to do
ItemProgressLeft(i, n) == ((n - i) * 100) \div n

\* the percent passed to set_step_progress after item i of n:
\* (i + 1) / n * 100
ItemProgress(i, n) == ((i + 1) * 100) \div n

\* proc.update_step("extract", "running"); file_paths = []
ExtractBegin ==
  /\ pc = "extract_begin"
  /\ CallUpdate("extract", "running", None)
  /\ file_paths' = << >>
  /\ idx' = 0
  /\ pc' = "extract_loop"
  /\ io' = [ io EXCEPT !.written = << >>, !.disk = {} ]
  /\ UNCHANGED << inputVars, session, overall_status, result, error_message,
                  exc, compression_results, numbered_files, exhibit_list,
                  res, faults, obs, ui, up, numVars >>

\* one iteration of `for i, file in enumerate(files)`
ExtractFile ==
  /\ pc = "extract_loop"
  /\ idx < Len(files)
  /\ \/ /\ file_paths' = Append(file_paths, files[idx + 1])
        /\ io' = [ pos |-> [ io.pos EXCEPT ![idx + 1] = EndOf(files[idx + 1]) ],
                   written |-> Append(io.written,
                                      Read(files[idx + 1], io.pos[idx + 1])),
                   disk |-> WriteFile(io.disk, files[idx + 1].name,
                                      Read(files[idx + 1], io.pos[idx + 1])) ]
        /\ CallProgress("extract", ItemProgress(idx, Max(Len(files), 1)))
        /\ idx' = idx + 1
        /\ UNCHANGED << pc, exc, faults >>
     \/ /\ \E e \in FaultMessages : Fault("write", e)
        /\ UNCHANGED << file_paths, steps, last_call, touch_order, idx, io >>
  /\ UNCHANGED << inputVars, session, overall_status, result, error_message,
                  compression_results, numbered_files, exhibit_list,
                  res, obs, ui, up, numVars >>

\* one iteration of `for file_path in zip_files`, a path that is not found
\* raising out of the loop
ExtractZipAbort ==
  /\ pc = "extract_loop"
  /\ idx >= Len(files)
  /\ idx - Len(files) < Len(zip_files)
  /\ LET z == zip_files[idx - Len(files) + 1] IN
       \/ /\ ~z.isabs
          /\ CallUpdate("extract", "error", "Invalid zip file path: " \o z.name)
          /\ idx' = idx + 1
          /\ UNCHANGED << file_paths, pc, exc, faults, io >>
       \/ /\ z.isabs /\ z.exists
          /\ \/ /\ file_paths' = Append(file_paths, WorkFile(z))
                /\ io' = [ io EXCEPT !.disk = WriteFile(@, z.name, Bytes(z)) ]
                /\ idx' = idx + 1
                /\ UNCHANGED << pc, exc, faults >>
             \/ /\ \E e \in FaultMessages : Fault("copy", e)
                /\ UNCHANGED << file_paths, idx, io >>
          /\ UNCHANGED << steps, last_call, touch_order >>
       \/ /\ z.isabs /\ ~z.exists
          /\ pc' = "raise"
          /\ exc' = FatalMessage("Zip file not found: " \o z.name)
          /\ UNCHANGED << file_paths, idx, faults, steps, last_call,
                          touch_order, io >>
  /\ UNCHANGED << inputVars, session, overall_status, result, error_message,
                  compression_results, numbered_files, exhibit_list,
                  res, obs, ui, up, numVars >>

\* one iteration of `for file_path in zip_files`
ExtractZip ==
  /\ pc = "extract_loop"
  /\ idx >= Len(files)
  /\ idx - Len(files) < Len(zip_files)
  /\ LET z == zip_files[idx - Len(files) + 1] IN
       \/ /\ ~z.isabs
          /\ CallUpdate("extract", "error", "Invalid zip file path: " \o z.name)
          /\ idx' = idx + 1
          /\ UNCHANGED << file_paths, pc, exc, faults, io >>
       \/ /\ z.isabs /\ z.exists
          /\ \/ /\ file_paths' = Append(file_paths, WorkFile(z))
                /\ io' = [ io EXCEPT !.disk = WriteFile(@, z.name, Bytes(z)) ]
                /\ idx' = idx + 1
                /\ UNCHANGED << pc, exc, faults >>
             \/ /\ \E e \in FaultMessages : Fault("copy", e)
                /\ UNCHANGED << file_paths, idx, io >>
          /\ UNCHANGED << steps, last_call, touch_order >>
       \/ /\ z.isabs /\ ~z.exists
          /\ CallUpdate("extract", "error", "Zip file not found: " \o z.name)
          /\ idx' = idx + 1
          /\ UNCHANGED << file_paths, pc, exc, faults, io >>
  /\ UNCHANGED << inputVars, session, overall_status, result, error_message,
                  compression_results, numbered_files, exhibit_list,
                  res, obs, ui, up, numVars >>

\* proc.complete_step("extract"); pdf_handler = PDFHandler(...);
\* compression_results = []
ExtractComplete ==
  /\ pc = "extract_loop"
  /\ idx >= Len(files) + Len(zip_files)
  /\ CallComplete("extract")
  /\ compression_results' = << >>
  /\ pc' = "compress"
  /\ idx' = 0
  /\ UNCHANGED << inputVars, session, overall_status, result, error_message,
                  exc, file_paths, numbered_files, exhibit_list, res,
                  faults, obs, ui, io, up, numVars >>

(***************************************************************************)
(* process_func: compress                                                  *)
(***************************************************************************)
\* sizes the compressor reports for a file
OriginalSize(f) == 100
CompressedSize(f) == 100 - 10 * f.pages
ReductionPercent(f) == ((OriginalSize(f) - CompressedSize(f)) * 100) \div OriginalSize(f)

\* what compressor.compress(file_path) returns on success
CompResult(f) ==
  [ file |-> f.name, success |-> TRUE, original_size |-> OriginalSize(f),
    compressed_size |-> CompressedSize(f),
    reduction_percent |-> ReductionPercent(f),
    method |-> "ghostscript" ]

\* if config['enable_compression'] and pdf_handler.compressor:
\*     proc.update_step("compress", "running")
CompressBegin ==
  /\ pc = "compress"
  /\ config.enable_compression
  /\ CallUpdate("compress", "running", None)
  /\ pc' = "compress_loop"
  /\ idx' = 0
  /\ UNCHANGED << inputVars, session, overall_status, result, error_message,
                  exc, localVars, faults, obs, ui, io, up, numVars >>

\* one iteration of `for i, file_path in enumerate(file_paths)`: the
\* compressor reports success, reports failure, or raises
CompressFile ==
  /\ pc = "compress_loop"
  /\ idx < Len(file_paths)
  /\ LET f == file_paths[idx + 1] IN
       \/ /\ compression_results' = Append(compression_results, CompResult(f))
          /\ res' = [ res EXCEPT !.original_size = @ + OriginalSize(f),
                                 !.compressed_size = @ + CompressedSize(f) ]
          /\ CallProgress("compress", ItemProgress(idx, Len(file_paths)))
          /\ idx' = idx + 1
          /\ UNCHANGED << pc, exc, faults >>
       \/ /\ CanFail
          /\ faults' = Failed("compress_failed")
          /\ CallProgress("compress", ItemProgress(idx, Len(file_paths)))
          /\ idx' = idx + 1
          /\ UNCHANGED << compression_results, res, pc, exc >>
       \/ /\ \E e \in FaultMessages : Fault("compress", e)
          /\ UNCHANGED << compression_results, res, steps, last_call,
                          touch_order, idx >>
  /\ UNCHANGED << inputVars, session, overall_status, result, error_message,
                  file_paths, numbered_files, exhibit_list, obs, ui, io, up, numVars >>

\* proc.complete_step("compress"), reached with or without the loop: the
\* compressor of a handler built with compression enabled may be missing
CompressComplete ==
  /\ \/ pc = "compress"
     \/ pc = "compress_loop" /\ idx >= Len(file_paths)
  /\ CallComplete("compress")
  /\ pc' = "number"
  /\ idx' = 0
  /\ UNCHANGED << inputVars, session, overall_status, result, error_message,
                  exc, localVars, faults, obs, ui, io, up, numVars >>

(***************************************************************************)
(* process_func: number                                                    *)
(***************************************************************************)
\* proc.update_step("number", "running"); numbered_files = [];
\* exhibit_list = []
NumberBegin ==
  /\ pc = "number"
  /\ CallUpdate("number", "running", None)
  /\ numbered_files' = << >>
  /\ exhibit_list' = << >>
  /\ pc' = "number_loop"
  /\ idx' = 0
  /\ UNCHANGED << inputVars, session, overall_status, result, error_message,
                  exc, file_paths, compression_results, res, faults, obs,
                  ui, io, up, numVars >>

\* exhibit_info with the title replaced as soon as the label is returned,
\* before the analysis is asked for
ExhibitInfoEarlyLabel(f, i, ai) ==
  [ number |-> ExhibitNum(config.numbering_style, i),
    title |-> "label of " \o f.name,
    filename |-> f.name,
    pages |-> f.pages,
    analysis |-> (ai = "ok"),
    compression |->
      IF i < Len(compression_results)
      THEN [ reduction |-> compression_results[i + 1].reduction_percent,
             method |-> compression_results[i + 1].method ]
      ELSE Unset ]

\* exhibit_info after the AI try block: the label replaces the title and
\* the analysis is attached only when the classifier returned them
ExhibitInfo(f, i, ai) ==
  [ number |-> ExhibitNum(config.numbering_style, i),
    title |-> IF ai = "ok" THEN "label of " \o f.name ELSE f.stem,
    filename |-> f.name,
    pages |-> f.pages,
    analysis |-> (ai = "ok"),
    compression |->
      IF i < Len(compression_results)
      THEN [ reduction |-> compression_results[i + 1].reduction_percent,
             method |-> compression_results[i + 1].method ]
      ELSE Unset ]

\* the numbered copy with the file-name-derived title on every cover page,
\* the fallback's too
NumberedFileTitled(f, num, title) == [ kind |-> "exhibit", src |-> f.name,
                                       number |-> num, title |-> f.stem ]

\* what add_exhibit_number_with_cover returns: the numbered copy of a file
NumberedFile(f, num, title) == [ kind |-> "exhibit", src |-> f.name,
                                 number |-> num, title |-> title ]

\* one iteration of `for i, file_path in enumerate(file_paths)`.
\* ai: the classifier block succeeds or raises (caught);
\* cover: add_exhibit_number_with_cover succeeds, raises and the
\* number-only fallback succeeds, or the fallback raises too.
NumberFile ==
  /\ pc = "number_loop"
  /\ idx < Len(file_paths)
  /\ \E ai \in { "ok", "raise" }, cover \in { "ok", "fallback", "raise" } :
       LET f == file_paths[idx + 1]
           info == ExhibitInfo(f, idx, ai)
           soft == { [ site |-> "ai", item |-> idx ] : x \in { ai } \ { "ok" } } \cup
                   { [ site |-> "cover_page", item |-> idx ] : x \in { cover } \ { "ok", "raise" } } \cup
                   { [ site |-> "number", item |-> idx ] : x \in { cover } \ { "ok", "fallback" } }
       IN /\ Cardinality(faults \cup soft) <= MaxFaults
          /\ faults' = faults \cup soft
          /\ IF cover = "raise"
             THEN /\ pc' = "raise"
                  /\ \E e \in FaultMessages : exc' = FatalMessage(e)
                  /\ UNCHANGED << numbered_files, exhibit_list, res, steps,
                                  last_call, touch_order, idx >>
             ELSE /\ numbered_files' = Append(numbered_files,
                       NumberedFile(f, info.number,
                                    IF cover = "ok" THEN info.title ELSE None))
                  /\ exhibit_list' = Append(exhibit_list, info)
                  /\ res' = [ res EXCEPT !.total_pages = @ + info.pages ]
                  /\ CallProgress("number", ItemProgress(idx, Len(file_paths)))
                  /\ idx' = idx + 1
                  /\ UNCHANGED << pc, exc >>
  /\ UNCHANGED << inputVars, session, overall_status, result, error_message,
                  file_paths, compression_results, obs, ui, io, up, numVars >>

\* the loop is left without proc.complete_step("number")
NumberCompleteSkip ==
  /\ pc = "number_loop"
  /\ idx >= Len(file_paths)
  /\ pc' = "toc"
  /\ idx' = 0
  /\ UNCHANGED << inputVars, session, procVars, exc, localVars, faults,
                  last_call, touch_order, obs, ui, io, up, numVars >>

\* proc.complete_step("number")
NumberComplete ==
  /\ pc = "number_loop"
  /\ idx >= Len(file_paths)
  /\ CallComplete("number")
  /\ pc' = "toc"
  /\ idx' = 0
  /\ UNCHANGED << inputVars, session, overall_status, result, error_message,
                  exc, localVars, faults, obs, ui, io, up, numVars >>

(***************************************************************************)
(* process_func: toc, cover, filing_instructions                           *)
(***************************************************************************)
\* if config['add_toc']: proc.update_step("toc", "running")
TocBegin ==
  /\ pc = "toc"
  /\ config.add_toc
  /\ CallUpdate("toc", "running", None)
  /\ pc' = "toc_generate"
  /\ UNCHANGED << inputVars, session, overall_status, result, error_message,
                  idx, exc, localVars, faults, obs, ui, io, up, numVars >>

TocFile == [ kind |-> "toc", src |-> "TOC.pdf", number |-> None, title |-> None ]

\* toc_file = pdf_handler.generate_table_of_contents(...), put after the
\* numbered files
TocGenerateAppend ==
  /\ pc = "toc_generate"
  /\ \/ /\ numbered_files' = Append(numbered_files, TocFile)
        /\ pc' = "toc_complete"
        /\ UNCHANGED << exc, faults >>
     \/ /\ \E e \in FaultMessages : Fault("toc", e)
        /\ UNCHANGED numbered_files
  /\ UNCHANGED << inputVars, session, procVars, idx, file_paths,
                  compression_results, exhibit_list, res, last_call,
                  touch_order, obs, ui, io, up, numVars >>

\* toc_file = pdf_handler.generate_table_of_contents(...);
\* numbered_files.insert(0, toc_file)
TocGenerate ==
  /\ pc = "toc_generate"
  /\ \/ /\ numbered_files' = << TocFile >> \o numbered_files
        /\ pc' = "toc_complete"
        /\ UNCHANGED << exc, faults >>
     \/ /\ \E e \in FaultMessages : Fault("toc", e)
        /\ UNCHANGED numbered_files
  /\ UNCHANGED << inputVars, session, procVars, idx, file_paths,
                  compression_results, exhibit_list, res, last_call,
                  touch_order, obs, ui, io, up, numVars >>

\* proc.complete_step("toc")
TocComplete ==
  /\ \/ pc = "toc" /\ ~config.add_toc
     \/ pc = "toc_complete"
  /\ CallComplete("toc")
  /\ pc' = "cover"
  /\ UNCHANGED << inputVars, session, overall_status, result, error_message,
                  idx, exc, localVars, faults, obs, ui, io, up, numVars >>

\* if config['add_cover_letter']: proc.update_step("cover", "running")
CoverBegin ==
  /\ pc = "cover"
  /\ config.add_cover_letter
  /\ CallUpdate("cover", "running", None)
  /\ pc' = "cover_generate"
  /\ UNCHANGED << inputVars, session, overall_status, result, error_message,
                  idx, exc, localVars, faults, obs, ui, io, up, numVars >>

\* the cover step with result['cover_letter_path'] assigned before the
\* letter is generated and left in place by the except branch
CoverCompleteKeepPath ==
  /\ \/ /\ pc = "cover" /\ ~config.add_cover_letter
        /\ UNCHANGED << res, faults >>
     \/ /\ pc = "cover_generate"
        /\ \/ /\ res' = [ res EXCEPT !.cover_letter_path = "Cover_Letter.docx" ]
              /\ UNCHANGED faults
           \/ /\ CanFail
              /\ res' = [ res EXCEPT !.cover_letter_path = "Cover_Letter.docx" ]
              /\ faults' = Failed("cover")
  /\ CallComplete("cover")
  /\ pc' = "filing_instructions"
  /\ UNCHANGED << inputVars, session, overall_status, result, error_message,
                  idx, exc, file_paths, compression_results,
                  numbered_files, exhibit_list, obs, ui, io, up, numVars >>

\* the try block of the cover step (a fault is caught and leaves
\* cover_letter_path None), then proc.complete_step("cover")
CoverComplete ==
  /\ \/ /\ pc = "cover" /\ ~config.add_cover_letter
        /\ UNCHANGED << res, faults >>
     \/ /\ pc = "cover_generate"
        /\ \/ /\ res' = [ res EXCEPT !.cover_letter_path = "Cover_Letter.docx" ]
              /\ UNCHANGED faults
           \/ /\ CanFail
              /\ res' = [ res EXCEPT !.cover_letter_path = None ]
              /\ faults' = Failed("cover")
  /\ CallComplete("cover")
  /\ pc' = "filing_instructions"
  /\ UNCHANGED << inputVars, session, overall_status, result, error_message,
                  idx, exc, file_paths, compression_results,
                  numbered_files, exhibit_list, obs, ui, io, up, numVars >>

\* proc.update_step("filing_instructions", "running")
FilingBegin ==
  /\ pc = "filing_instructions"
  /\ CallUpdate("filing_instructions", "running", None)
  /\ pc' = "filing_generate"
  /\ UNCHANGED << inputVars, session, overall_status, result, error_message,
                  idx, exc, localVars, faults, obs, ui, io, up, numVars >>

\* if config.get('add_filing_instructions'): the try block (a fault is
\* caught), then proc.complete_step("filing_instructions")
FilingComplete ==
  /\ pc = "filing_generate"
  /\ \/ /\ ~config.add_filing_instructions
        /\ UNCHANGED << res, faults >>
     \/ /\ config.add_filing_instructions
        /\ \/ /\ res' = [ res EXCEPT !.filing_instructions_path = "Filing_Instructions.docx" ]
              /\ UNCHANGED faults
           \/ /\ CanFail
              /\ res' = [ res EXCEPT !.filing_instructions_path = None ]
              /\ faults' = Failed("filing_instructions")
  /\ CallComplete("filing_instructions")
  /\ pc' = "merge"
  /\ UNCHANGED << inputVars, session, overall_status, result, error_message,
                  idx, exc, file_paths, compression_results,
                  numbered_files, exhibit_list, obs, ui, io, up, numVars >>

(***************************************************************************)
(* process_func: merge, finalize                                           *)
(***************************************************************************)
\* proc.update_step("merge", "running")
MergeBegin ==
  /\ pc = "merge"
  /\ CallUpdate("merge", "running", None)
  /\ pc' = "merge_files"
  /\ UNCHANGED << inputVars, session, overall_status, result, error_message,
                  idx, exc, localVars, faults, obs, ui, io, up, numVars >>

\* the package written to the persistent location: the merge of all
\* numbered files, or a copy of numbered_files[0]
OutputFile(nf, merge) ==
  IF Len(nf) = 0 THEN Unset
  ELSE IF merge THEN [ kind |-> "merged", parts |-> nf ]
  ELSE [ kind |-> "copy", parts |-> << nf[1] >> ]

\* if numbered_files: merge or copy (either may raise) else output_file
\* stays None; then proc.complete_step("merge")
MergeComplete ==
  /\ pc = "merge_files"
  /\ \/ /\ res' = [ res EXCEPT !.output_file = OutputFile(numbered_files, config.merge_pdfs) ]
        /\ CallComplete("merge")
        /\ pc' = "finalize"
        /\ UNCHANGED << exc, faults >>
     \/ /\ Len(numbered_files) > 0
        /\ \E e \in FaultMessages : Fault("merge", e)
        /\ UNCHANGED << res, steps, last_call, touch_order >>
  /\ UNCHANGED << inputVars, session, overall_status, result, error_message,
                  idx, file_paths, compression_results, numbered_files,
                  exhibit_list, obs, ui, io, up, numVars >>

\* proc.update_step("finalize", "running")
FinalizeBegin ==
  /\ pc = "finalize"
  /\ CallUpdate("finalize", "running", None)
  /\ pc' = "finalize_save"
  /\ UNCHANGED << inputVars, session, overall_status, result, error_message,
                  idx, exc, localVars, faults, obs, ui, io, up, numVars >>

\* avg_reduction, as a whole percentage
AvgReduction(r) ==
  IF r.original_size > 0
  THEN 100 - (r.compressed_size * 100) \div Max(r.original_size, 1)
  ELSE 0

\* st.session_state.compression_stats, written only `if compression_results`
CompressionStats ==
  IF Len(compression_results) > 0
  THEN [ original_size |-> res.original_size,
         compressed_size |-> res.compressed_size,
         avg_reduction |-> AvgReduction(res),
         method |-> compression_results[1].method ]
  ELSE session.compression_stats

\* the session writes of the finalize step
FinalizeSession ==
  [ session EXCEPT !.exhibit_list = exhibit_list,
                   !.compression_stats = CompressionStats,
                   !.exhibits_generated = TRUE ]

\* return result, without proc.complete_step("finalize")
FinalizeCompleteSkip ==
  /\ pc = "finalize_save"
  /\ session' = FinalizeSession
  /\ pc' = "return"
  /\ UNCHANGED << inputVars, procVars, idx, exc, localVars, faults,
                  last_call, touch_order, obs, ui, io, up, numVars >>

\* st.session_state.exhibit_list = ...; compression_stats;
\* exhibits_generated = True; proc.complete_step("finalize"); return result
FinalizeComplete ==
  /\ pc = "finalize_save"
  /\ session' = FinalizeSession
  /\ CallComplete("finalize")
  /\ pc' = "return"
  /\ UNCHANGED << inputVars, overall_status, result, error_message, idx,
                  exc, localVars, faults, obs, ui, io, up, numVars >>

(***************************************************************************)
(* Background Processor: end of the worker                                 *)
(***************************************************************************)
\* pipeline_fn returned: the Result is attached and the run is complete,
\* in one step for any reader
WorkerReturn ==
  /\ pc = "return"
  /\ result' = res
  /\ overall_status' = "complete"
  /\ pc' = "done"
  /\ UNCHANGED << inputVars, session, steps, error_message, idx, exc,
                  localVars, faults, last_call, touch_order, obs, ui, io, up, numVars >>

\* pipeline_fn raised: overall_status = error with the fault's message;
\* the steps stay as they were
WorkerRaise ==
  /\ pc = "raise"
  /\ overall_status' = "error"
  /\ error_message' = exc
  /\ pc' = "done"
  /\ UNCHANGED << inputVars, session, steps, result, idx, exc,
                  localVars, faults, last_call, touch_order, obs, ui, io, up, numVars >>

(***************************************************************************)
(* Polling presenter                                                       *)
(***************************************************************************)
\* one read of the processor's accessors by render_stage_5_generate
Snapshot == [ status |-> overall_status,
              has_result |-> (result # Unset),
              finalize |-> steps["finalize"].status ]

Poll ==
  /\ obs # Snapshot
  /\ obs' = Snapshot
  /\ UNCHANGED << inputVars, session, procVars, pc, idx, exc, localVars,
                  faults, last_call, touch_order, ui, io, up, numVars >>

Next ==
  \/ GenerateExhibits
  \/ Mkdtemp
  \/ ExtractBegin
  \/ ExtractFile
  \/ ExtractZip
  \/ ExtractComplete
  \/ CompressBegin
  \/ CompressFile
  \/ CompressComplete
  \/ NumberBegin
  \/ NumberFile
  \/ NumberComplete
  \/ TocBegin
  \/ TocGenerate
  \/ TocComplete
  \/ CoverBegin
  \/ CoverComplete
  \/ FilingBegin
  \/ FilingComplete
  \/ MergeBegin
  \/ MergeComplete
  \/ FinalizeBegin
  \/ FinalizeComplete
  \/ WorkerReturn
  \/ WorkerRaise

Spec == Init /\ [][Next]_vars

(***************************************************************************)
(* render_stage_5_generate: one script run of the Generate stage, one      *)
(* read of the processor per step, beside the running worker               *)
(***************************************************************************)
workerVars == << inputVars, session, procVars, pc, idx, exc, localVars,
                 faults, last_call, touch_order, obs, io, up, numVars >>

\* dict.get(key, default)
ResultGet(r, key, default) == IF key \in DOMAIN r THEN r[key] ELSE default

\* the script run is over; `button` is the button it left on the page
UiEnd(button) == [ ui EXCEPT !.at = "idle", !.button = button,
                             !.click = "none" ]

\* generate_exhibits_v2(config) called by the script run
UiGenerate(button) ==
  /\ ResetAndStart
  /\ ui' = [ UiEnd(button) EXCEPT
               !.overlap = @ \/ is_running \/ pc \notin { "idle", "done" } ]
  /\ UNCHANGED << inputVars, session, obs, io, up, numVars >>

\* a script run starts: a click on the button that is on the page, or a
\* rerun without a widget event
UiScriptRun ==
  /\ ui.stage = "generate"
  /\ ui.at = "idle"
  /\ \E click \in { "none", ui.button } :
       ui' = [ ui EXCEPT !.at = "has_error", !.click = click ]
  /\ UNCHANGED workerVars

\* the retry branch entered on the click of a Retry button that is still on
\* the page, whatever processor.has_error reads now
UiHasErrorStale ==
  /\ ui.at = "has_error"
  /\ IF has_error \/ ui.click = "retry"
     THEN IF ui.click = "retry"
          THEN UiGenerate("retry")
          ELSE ui' = UiEnd("retry") /\ UNCHANGED workerVars
     ELSE ui' = [ ui EXCEPT !.at = "not_running" ] /\ UNCHANGED workerVars

\* if processor.has_error: ...; if st.button("Retry ..."): generate
UiHasError ==
  /\ ui.at = "has_error"
  /\ IF has_error
     THEN IF ui.click = "retry"
          THEN UiGenerate("retry")
          ELSE ui' = UiEnd("retry") /\ UNCHANGED workerVars
     ELSE ui' = [ ui EXCEPT !.at = "not_running" ] /\ UNCHANGED workerVars

\* elif not processor.is_running and ...: the first operand
UiNotRunning ==
  /\ ui.at = "not_running"
  /\ ui' = [ ui EXCEPT !.at = IF ~is_running THEN "not_complete"
                                ELSE "is_running" ]
  /\ UNCHANGED workerVars

\* ... and not processor.is_complete: the second operand and the initial
\* branch; if st.button("Generate ..."): generate; st.rerun()
UiNotComplete ==
  /\ ui.at = "not_complete"
  /\ IF ~is_complete
     THEN IF ui.click = "generate"
          THEN UiGenerate("generate")
          ELSE ui' = UiEnd("generate") /\ UNCHANGED workerVars
     ELSE ui' = [ ui EXCEPT !.at = "is_running" ] /\ UNCHANGED workerVars

\* elif processor.is_running:
UiIsRunning ==
  /\ ui.at = "is_running"
  /\ ui' = [ ui EXCEPT !.at = IF is_running THEN "processing"
                                ELSE "is_complete" ]
  /\ UNCHANGED workerVars

\* result = render_processing_ui(); if result: processing_complete = True;
\* navigator.next_stage(); st.rerun()
UiProcessing ==
  /\ ui.at = "processing"
  /\ IF is_complete /\ result # Unset
     THEN /\ session' = [ session EXCEPT !.processing_complete = TRUE ]
          /\ ui' = [ UiEnd("none") EXCEPT !.stage = "complete" ]
     ELSE /\ ui' = UiEnd("none")
          /\ UNCHANGED session
  /\ UNCHANGED << inputVars, procVars, pc, idx, exc, localVars, faults,
                  last_call, touch_order, obs, io, up, numVars >>

\* the session after the transfer of the Result r
TransferResult(r) ==
  [ session EXCEPT
      !.output_file = ResultGet(r, "output_file", Unset),
      !.exhibit_list = ResultGet(r, "exhibit_list", << >>),
      !.cover_letter_path = ResultGet(r, "cover_letter_path", None),
      !.filing_instructions_path =
          ResultGet(r, "filing_instructions_path", None),
      !.compression_stats =
          IF "compressed_size" \in DOMAIN r /\ "original_size" \in DOMAIN r
          THEN [ original_size |-> r.original_size,
                 compressed_size |-> r.compressed_size,
                 avg_reduction |-> ResultGet(r, "avg_reduction", 0),
                 method |-> ResultGet(r, "compression_method", "unknown") ]
          ELSE @ ]

\* elif processor.is_complete: transfer; navigator.next_stage(); st.rerun()
UiIsComplete ==
  /\ ui.at = "is_complete"
  /\ IF is_complete
     THEN /\ session' = IF result # Unset THEN TransferResult(result)
                        ELSE session
          /\ ui' = [ UiEnd("none") EXCEPT !.stage = "complete" ]
     ELSE /\ ui' = UiEnd("none")
          /\ UNCHANGED session
  /\ UNCHANGED << inputVars, procVars, pc, idx, exc, localVars, faults,
                  last_call, touch_order, obs, io, up, numVars >>

\* render_stage_6_complete ends with navigator.render_navigation_buttons():
\* the Back button of the Complete stage leads to the Generate stage.  The
\* Complete stage itself calls nothing of the processor.
UiBack ==
  /\ ui.stage = "complete"
  /\ ui.at = "idle"
  /\ ui' = [ ui EXCEPT !.stage = "generate", !.button = "none",
                       !.click = "none" ]
  /\ UNCHANGED workerVars

\* the Generate stage of one session: every collaborator switched on, so
\* that every step of the pipeline has work to do, and archive paths that
\* are present on disk
InitUI ==
  /\ config \in { c \in Configs : /\ c.numbering_style = "letters"
                                  /\ c.enable_compression
                                  /\ c.add_toc
                                  /\ c.add_cover_letter
                                  /\ c.add_filing_instructions }
  /\ files \in { SubSeq(FilePool, 1, n) : n \in 0..MaxFiles }
  /\ zip_files \in SeqsUpTo({ z \in ZipPaths : z.isabs /\ z.exists }, MaxZip)
  /\ IdleProcessor
  /\ n_style = "letters"
  /\ n_pos = 0
  /\ n_nums = << >>
  /\ rl = NoLoop

NextUI ==
  \/ UiScriptRun
  \/ UiBack
  \/ UiHasError
  \/ UiNotRunning
  \/ UiNotComplete
  \/ UiIsRunning
  \/ UiProcessing
  \/ UiIsComplete
  \/ Mkdtemp
  \/ ExtractBegin
  \/ ExtractFile
  \/ ExtractZip
  \/ ExtractComplete
  \/ CompressBegin
  \/ CompressFile
  \/ CompressComplete
  \/ NumberBegin
  \/ NumberFile
  \/ NumberComplete
  \/ TocBegin
  \/ TocGenerate
  \/ TocComplete
  \/ CoverBegin
  \/ CoverComplete
  \/ FilingBegin
  \/ FilingComplete
  \/ MergeBegin
  \/ MergeComplete
  \/ FinalizeBegin
  \/ FinalizeComplete
  \/ WorkerReturn
  \/ WorkerRaise

SpecUI == InitUI /\ [][NextUI]_vars

\* the user keeps using the page: the script and the worker keep running,
\* and a button that is on the page again and again is clicked eventually
SpecUIFair ==
  /\ SpecUI
  /\ WF_vars(NextUI)
  /\ SF_vars(UiBack)
  /\ SF_vars(UiScriptRun /\ ui'.click # "none")

(***************************************************************************)
(* The worker beside a reader that polls the processor's accessors         *)
(***************************************************************************)
NextPoll ==
  \/ GenerateExhibits
  \/ Mkdtemp
  \/ ExtractBegin
  \/ ExtractFile
  \/ ExtractZip
  \/ ExtractComplete
  \/ CompressBegin
  \/ CompressFile
  \/ CompressComplete
  \/ NumberBegin
  \/ NumberFile
  \/ NumberComplete
  \/ TocBegin
  \/ TocGenerate
  \/ TocComplete
  \/ CoverBegin
  \/ CoverComplete
  \/ FilingBegin
  \/ FilingComplete
  \/ MergeBegin
  \/ MergeComplete
  \/ FinalizeBegin
  \/ FinalizeComplete
  \/ WorkerReturn
  \/ WorkerRaise
  \/ Poll

SpecPoll == InitUI /\ [][NextPoll]_vars

(***************************************************************************)
(* The extract step on its own, over inputs that share file names and      *)
(* archive paths from inside and outside the extraction directory          *)
(***************************************************************************)
\* uploads: a.pdf, another upload named a.pdf with other content, b.pdf.
\* The copy made by duplicate_file is the same record twice in `files`.
UploadPool ==
  { [name |-> "a.pdf", stem |-> "a", pages |-> 1],
    [name |-> "a.pdf", stem |-> "a", pages |-> 2],
    [name |-> "b.pdf", stem |-> "b", pages |-> 3] }

\* archive paths by base name: inside the extraction directory and present,
\* outside of it and present, inside and deleted
ArchivePool ==
  { [name |-> "z.pdf", stem |-> "z", pages |-> 5, isabs |-> TRUE,
     exists |-> TRUE, inroot |-> TRUE],
    [name |-> "a.pdf", stem |-> "a", pages |-> 8, isabs |-> TRUE,
     exists |-> TRUE, inroot |-> FALSE],
    [name |-> "gone.pdf", stem |-> "gone", pages |-> 6, isabs |-> TRUE,
     exists |-> FALSE, inroot |-> TRUE] }

InitExtract ==
  /\ config = [ enable_compression |-> FALSE, numbering_style |-> "letters",
                add_toc |-> FALSE, add_cover_letter |-> FALSE,
                add_filing_instructions |-> FALSE, merge_pdfs |-> TRUE ]
  /\ files \in SeqsUpTo(UploadPool, MaxFiles + 1)
  /\ zip_files \in SeqsUpTo(ArchivePool, MaxZip + 1)
  /\ IdleProcessor
  /\ n_style = "letters"
  /\ n_pos = 0
  /\ n_nums = << >>
  /\ rl = NoLoop

NextExtract ==
  \/ GenerateExhibits
  \/ Mkdtemp
  \/ ExtractBegin
  \/ ExtractFile
  \/ ExtractZip
  \/ ExtractComplete
  \/ WorkerRaise

SpecExtract == InitExtract /\ [][NextExtract]_vars

(***************************************************************************)
(* The ZIP upload of the Upload stage, followed by the extract step        *)
(***************************************************************************)
\* members of an uploaded archive: the member name, whether it matches
\* *.pdf, whether it holds ".." or starts with "/", and the page count
MemberPool ==
  { [member |-> "z.pdf", name |-> "z.pdf", stem |-> "z", pages |-> 5,
     pdf |-> TRUE, dotdot |-> FALSE, rooted |-> FALSE],
    [member |-> "docs/y.pdf", name |-> "y.pdf", stem |-> "y", pages |-> 6,
     pdf |-> TRUE, dotdot |-> FALSE, rooted |-> FALSE],
    [member |-> "../x.pdf", name |-> "x.pdf", stem |-> "x", pages |-> 7,
     pdf |-> TRUE, dotdot |-> TRUE, rooted |-> FALSE],
    [member |-> "/etc/w.pdf", name |-> "w.pdf", stem |-> "w", pages |-> 8,
     pdf |-> TRUE, dotdot |-> FALSE, rooted |-> TRUE],
    [member |-> "notes.txt", name |-> "notes.txt", stem |-> "notes",
     pages |-> 0, pdf |-> FALSE, dotdot |-> FALSE, rooted |-> FALSE] }

\* `".." in member or member.startswith("/")`
Dangerous(m) == m.dotdot \/ m.rooted

\* the paths recorded for the members of one archive: the members that were
\* extracted under tmp_dir and match *.pdf.  Each path is absolute and lies
\* under tmp_dir; tmp_dir and everything in it is removed when the `with
\* tempfile.TemporaryDirectory()` block is left, so the file behind the
\* path no longer exists once the script continues.
RECURSIVE Recorded(_)
Recorded(ms) ==
  IF ms = << >> THEN << >>
  ELSE IF ~Dangerous(Head(ms)) /\ Head(ms).pdf
       THEN << [ name |-> Head(ms).name, stem |-> Head(ms).stem,
                 pages |-> Head(ms).pages, isabs |-> TRUE,
                 exists |-> FALSE, inroot |-> TRUE ] >>
            \o Recorded(Tail(ms))
       ELSE Recorded(Tail(ms))

\* the "ZIP Archive" branch of render_stage_2_upload with an archive selected
UploadZip ==
  /\ pc = "idle"
  /\ \E ms \in SeqsUpTo(MemberPool, MaxZip + 1) : zip_files' = Recorded(ms)
  /\ UNCHANGED << config, files, procVars, localVars, pc, idx, exc, faults,
                  last_call, touch_order, obs, session, ui, io, up, numVars >>

InitUpload ==
  /\ config = [ enable_compression |-> FALSE, numbering_style |-> "letters",
                add_toc |-> FALSE, add_cover_letter |-> FALSE,
                add_filing_instructions |-> FALSE, merge_pdfs |-> TRUE ]
  /\ files \in { SubSeq(FilePool, 1, n) : n \in 0..MaxFiles }
  /\ zip_files = << >>
  /\ IdleProcessor
  /\ n_style = "letters"
  /\ n_pos = 0
  /\ n_nums = << >>
  /\ rl = NoLoop

NextUpload ==
  \/ UploadZip
  \/ GenerateExhibits
  \/ Mkdtemp
  \/ ExtractBegin
  \/ ExtractFile
  \/ ExtractZip
  \/ ExtractComplete
  \/ WorkerRaise

SpecUpload == InitUpload /\ [][NextUpload]_vars

(***************************************************************************)
(* The file list of the upload page                                        *)
(***************************************************************************)
\* list.pop(i) and list.insert(i, x), i counted from 0
Pop(s, i) == SubSeq(s, 1, i) \o SubSeq(s, i + 2, Len(s))
Insert(s, i, x) == SubSeq(s, 1, i) \o << x >> \o SubSeq(s, i + 1, Len(s))

\* a value that is an int or is not: Some(i) is the int i, Nil is None
Some(i) == << i >>
Nil == << >>
IsInt(v) == Len(v) = 1
IntOf(v) == v[1]

\* arguments of the file operations: positions from 0, one position below
\* and some beyond the list, and a value that is not an int
IndexArgs == { Some(i) : i \in -1 .. MaxFiles + 2 } \cup { Nil }

\* the values delete_file finds
Found(index) ==
  [ called |-> TRUE, idx |-> index, uploaded_files |-> files,
    uploaded_meta |-> up.uploaded_meta,
    preview_file_index |-> up.preview_file_index,
    selected_upload_index |-> up.selected_upload_index ]

\* delete_file that leaves a preview index behind the deleted entry as it is
DeleteFileKeepPreview(index) ==
  /\ pc = "idle"
  /\ IF IsInt(index) /\ 0 <= IntOf(index) /\ IntOf(index) < Len(files)
     THEN LET i == IntOf(index)
              preview_idx == up.preview_file_index
              sel == up.selected_upload_index
          IN /\ files' = Pop(files, i)
             /\ up' = [ uploaded_meta |->
                          IF i < Len(up.uploaded_meta)
                          THEN Pop(up.uploaded_meta, i)
                          ELSE up.uploaded_meta,
                        preview_file_index |->
                          IF preview_idx = Nil THEN Nil
                          ELSE IF IntOf(preview_idx) = i THEN Nil
                          ELSE IF IntOf(preview_idx) > i
                               THEN preview_idx
                               ELSE preview_idx,
                        selected_upload_index |->
                          IF ~IsInt(sel) THEN sel
                          ELSE IF IntOf(sel) = i THEN Nil
                          ELSE IF IntOf(sel) > i
                               THEN Some(Max(0, IntOf(sel) - 1))
                               ELSE sel,
                        before |-> Found(index) ]
             /\ io' = [ io EXCEPT !.pos = Pop(@, i) ]
     ELSE /\ up' = [ up EXCEPT !.before = Found(index) ]
          /\ UNCHANGED << files, io >>
  /\ UNCHANGED << config, zip_files, session, procVars, pc, idx, exc,
                  localVars, faults, last_call, touch_order, obs, ui,
                  numVars >>

\* delete_file(idx)
DeleteFile(index) ==
  /\ pc = "idle"
  /\ IF IsInt(index) /\ 0 <= IntOf(index) /\ IntOf(index) < Len(files)
     THEN LET i == IntOf(index)
              preview_idx == up.preview_file_index
              sel == up.selected_upload_index
          IN /\ files' = Pop(files, i)
             /\ up' = [ uploaded_meta |->
                          IF i < Len(up.uploaded_meta)
                          THEN Pop(up.uploaded_meta, i)
                          ELSE up.uploaded_meta,
                        preview_file_index |->
                          IF preview_idx = Nil THEN Nil
                          ELSE IF IntOf(preview_idx) = i THEN Nil
                          ELSE IF IntOf(preview_idx) > i
                               THEN Some(IntOf(preview_idx) - 1)
                               ELSE preview_idx,
                        selected_upload_index |->
                          IF ~IsInt(sel) THEN sel
                          ELSE IF IntOf(sel) = i THEN Nil
                          ELSE IF IntOf(sel) > i
                               THEN Some(Max(0, IntOf(sel) - 1))
                               ELSE sel,
                        before |-> Found(index) ]
             /\ io' = [ io EXCEPT !.pos = Pop(@, i) ]
     ELSE /\ up' = [ up EXCEPT !.before = Found(index) ]
          /\ UNCHANGED << files, io >>
  /\ UNCHANGED << config, zip_files, session, procVars, pc, idx, exc,
                  localVars, faults, last_call, touch_order, obs, ui,
                  numVars >>

\* the delete button of a card, or the bridge command "delete:<idx>"
DeleteFileCall == \E i \in IndexArgs : DeleteFile(i)

\* duplicate_file(idx): the copy keeps name and bytes of the source and is
\* inserted behind it with a copy of its meta entry; both indices select it
DuplicateFile ==
  /\ pc = "idle"
  /\ Len(files) <= MaxFiles + 1
  /\ \E i \in 0 .. Len(files) - 1 :
       /\ files' = Insert(files, i + 1, files[i + 1])
       /\ up' = [ up EXCEPT
                    !.uploaded_meta = Insert(@, i + 1, up.uploaded_meta[i + 1]),
                    !.selected_upload_index = Some(i + 1),
                    !.preview_file_index = Some(i + 1),
                    !.before = NoDelete ]
       /\ io' = [ io EXCEPT !.pos = Insert(@, i + 1, 0) ]
  /\ UNCHANGED << config, zip_files, session, procVars, pc, idx, exc,
                  localVars, faults, last_call, touch_order, obs, ui,
                  numVars >>

\* the preview button of a card: preview_file_index toggles
PreviewFile ==
  /\ pc = "idle"
  /\ \E i \in 0 .. Len(files) - 1 :
       up' = [ up EXCEPT
                 !.preview_file_index = IF @ = Some(i) THEN Nil ELSE Some(i),
                 !.before = NoDelete ]
  /\ UNCHANGED << inputVars, session, procVars, pc, idx, exc, localVars,
                  faults, last_call, touch_order, obs, ui, io, numVars >>

InitFiles ==
  /\ config = [ enable_compression |-> FALSE, numbering_style |-> "letters",
                add_toc |-> FALSE, add_cover_letter |-> FALSE,
                add_filing_instructions |-> FALSE, merge_pdfs |-> TRUE ]
  /\ files \in { SubSeq(FilePool, 1, n) : n \in 0 .. MaxFiles + 1 }
  /\ zip_files = << >>
  /\ IdleProcessor
  /\ n_style = "letters"
  /\ n_pos = 0
  /\ n_nums = << >>
  /\ rl = NoLoop

NextFiles ==
  \/ DeleteFileCall
  \/ DuplicateFile
  \/ PreviewFile

SpecFiles == InitFiles /\ [][NextFiles]_vars

(***************************************************************************)
(* Numbering on its own: the number step's numbering of positions          *)
(* 0, 1, 2, ... in each style, with the loop of to_roman taken one         *)
(* iteration at a time                                                     *)
(***************************************************************************)
Styles == { "letters", "numbers", "roman" }

InitNum ==
  /\ config = [ enable_compression |-> FALSE, numbering_style |-> "letters",
                add_toc |-> FALSE, add_cover_letter |-> FALSE,
                add_filing_instructions |-> FALSE, merge_pdfs |-> TRUE ]
  /\ files = << >>
  /\ zip_files = << >>
  /\ IdleProcessor
  /\ n_style \in Styles
  /\ n_pos = 0
  /\ n_nums = << >>
  /\ rl = NoLoop

pipeVars == << inputVars, session, procVars, pc, idx, exc, localVars, faults,
               last_call, touch_order, obs, ui, io, up >>

\* letters and numbers: exhibit_num of position n_pos
NumberPosition ==
  /\ n_style # "roman"
  /\ n_pos < MaxPos
  /\ n_nums' = Append(n_nums, ExhibitNum(n_style, n_pos))
  /\ n_pos' = n_pos + 1
  /\ UNCHANGED << pipeVars, n_style, rl >>

\* roman: exhibit_num = to_roman(i + 1) enters the function
RomanCall ==
  /\ n_style = "roman"
  /\ ~rl.active
  /\ n_pos < MaxPos
  /\ rl' = [ active |-> TRUE, probe |-> FALSE, arg |-> n_pos + 1,
             l |-> RomanStart(n_pos + 1) ]
  /\ UNCHANGED << pipeVars, n_style, n_pos, n_nums >>

\* to_roman called on any argument up to MaxRoman
RomanProbe ==
  /\ n_style = "roman"
  /\ ~rl.active
  /\ n_pos = 0
  /\ \E n \in 1..MaxRoman :
       rl' = [ active |-> TRUE, probe |-> TRUE, arg |-> n, l |-> RomanStart(n) ]
  /\ UNCHANGED << pipeVars, n_style, n_pos, n_nums >>

\* while num > 0: one iteration
RomanLoop ==
  /\ rl.active
  /\ rl.l.num > 0
  /\ rl' = [ rl EXCEPT !.l = RomanIter(rl.l) ]
  /\ UNCHANGED << pipeVars, n_style, n_pos, n_nums >>

\* return roman_num
RomanReturn ==
  /\ rl.active
  /\ rl.l.num <= 0
  /\ rl' = NoLoop
  /\ IF rl.probe
     THEN UNCHANGED << n_nums, n_pos >>
     ELSE /\ n_nums' = Append(n_nums, rl.l.roman_num)
          /\ n_pos' = n_pos + 1
  /\ UNCHANGED << pipeVars, n_style >>

NextNum ==
  \/ NumberPosition
  \/ RomanCall
  \/ RomanProbe
  \/ RomanLoop
  \/ RomanReturn

SpecNum == InitNum /\ [][NextNum]_vars

SpecNumFair == SpecNum /\ WF_vars(RomanLoop) /\ WF_vars(RomanReturn)

(***************************************************************************)
(* Properties                                                              *)
(***************************************************************************)
Terminal == { "complete", "error" }
Touched(n) == steps[n].status # "pending"
IsPrefix(a, b) == Len(a) <= Len(b) /\ \A k \in 1..Len(a) : a[k] = b[k]
AllComplete == \A n \in StepNames : steps[n].status = "complete"

\* C1: the steps are first touched in the order extract, compress, number,
\* toc, cover, filing_instructions, merge, finalize, and a step is touched
\* only when the step before it is complete or error.
C1_FixedStepOrder ==
  /\ IsPrefix(touch_order, StepOrder)
  /\ \A k \in 1..Len(touch_order) : Touched(touch_order[k])
  /\ \A k \in 2..Len(StepOrder) :
       Touched(StepOrder[k]) => steps[StepOrder[k - 1]].status \in Terminal

C1_Witness ==
  /\ pc = "done"
  /\ overall_status = "complete"
  /\ touch_order = StepOrder
  /\ Len(file_paths) = 2

\* C2: complete_step(name) is only ever called on a step whose status is
\* running.
C2_CompleteOnlyRunning ==
  last_call.op = "complete_step" => last_call.before = "running"

\* C3: unless the Processing State is reset, a step that is complete or
\* error keeps that status.
Reset == overall_status # "running" /\ overall_status' = "running"

C3_TerminalStatusKept ==
  [][ ~Reset =>
        \A n \in StepNames :
          steps[n].status \in Terminal => steps'[n].status = steps[n].status ]_vars

\* C4: a run in which the only failing call is a compression call that
\* raised ends complete with one exhibit record per input file.
C4_CompressFaultContained ==
  (pc = "done" /\ FaultSites = { "compress" }) =>
     /\ overall_status = "complete"
     /\ result # Unset
     /\ Len(exhibit_list) = Len(file_paths)

\* C5: after a fault outside the per-item try blocks the run stops: the
\* overall status is error with a non-empty message, no Result is
\* attached, and no step after the one that faulted is touched.
FatalSites == { "mkdtemp", "write", "copy", "compress", "number", "toc", "merge" }
SiteStep(site) ==
  CASE site = "mkdtemp" -> 0
    [] site \in { "write", "copy" } -> 1
    [] site = "compress" -> 2
    [] site = "number" -> 3
    [] site = "toc" -> 4
    [] site = "merge" -> 7
FatalFaults == { f \in faults : f.site \in FatalSites }

C5_FatalFaultStops ==
  /\ (pc = "raise" \/ overall_status = "error") =>
        /\ FatalFaults # {}
        /\ result = Unset
        /\ \A f \in FatalFaults : \A k \in 1..Len(StepOrder) :
             k > SiteStep(f.site) => ~Touched(StepOrder[k])
  /\ overall_status = "error" =>
        /\ pc = "done"
        /\ error_message # None
        /\ error_message # ""
  /\ FatalFaults # {} => pc \in { "raise", "done" } /\ overall_status # "complete"

C5_Witness ==
  /\ overall_status = "error"
  /\ FaultSites = { "toc" }
  /\ steps["number"].status = "complete"
  /\ steps["toc"].status = "running"
  /\ error_message = "Failed to process exhibits: "

C7_EmptyRun ==
  (Len(files) = 0 /\ Len(zip_files) = 0 /\ pc = "done" /\ faults = {}) =>
     /\ AllComplete
     /\ overall_status = "complete"
     /\ result # Unset
     /\ result.exhibits = << >>
     /\ Len(exhibit_list) = 0
     /\ result.output_file = Unset

\* the bijective base-26 numeral of n >= 1 in the letters A..Z
RECURSIVE Bijective26(_)
Bijective26(n) ==
  IF n <= 0 THEN ""
  ELSE Bijective26((n - 1) \div 26) \o AsciiFrom65[((n - 1) % 26) + 1]

\* C8: with numbering-style letters the number of position i is the i-th
\* term of A..Z, AA..AZ, BA..BZ, ...
C8_LettersBijective ==
  n_style = "letters" =>
     \A k \in 1..Len(n_nums) : n_nums[k] = Bijective26(k)

\* the subtractive-notation numeral of n >= 1, digit by digit
RomanOnes == << "", "I", "II", "III", "IV", "V", "VI", "VII", "VIII", "IX" >>
RomanTens == << "", "X", "XX", "XXX", "XL", "L", "LX", "LXX", "LXXX", "XC" >>
RomanHundreds == << "", "C", "CC", "CCC", "CD", "D", "DC", "DCC", "DCCC", "CM" >>
CanonicalRoman(n) ==
  Repeat("M", n \div 1000) \o RomanHundreds[((n \div 100) % 10) + 1]
    \o RomanTens[((n \div 10) % 10) + 1] \o RomanOnes[(n % 10) + 1]

\* C9: with numbering-style roman the number of position i is the
\* subtractive-notation numeral of i + 1; to_roman returns that numeral for
\* its argument, never reads past the end of val, and every call returns.
C9_RomanState ==
  /\ n_style = "roman" =>
       \A k \in 1..Len(n_nums) : n_nums[k] = CanonicalRoman(k)
  /\ (n_style = "roman" /\ n_pos < MaxPos) =>
       ExhibitNum("roman", n_pos) = CanonicalRoman(n_pos + 1)
  /\ (rl.active /\ rl.l.num > 0) => rl.l.i < Len(val)
  /\ (rl.active /\ rl.l.num <= 0) =>
       rl.l.num = 0 /\ rl.l.roman_num = CanonicalRoman(rl.arg)

C9_RomanCanonical == []C9_RomanState /\ (rl.active ~> ~rl.active)

C9_Witness ==
  /\ rl.active
  /\ rl.arg = 949
  /\ rl.l.num = 0
  /\ rl.l.roman_num = "CMXLIX"

\* C10: in each style every position gets a number and two positions
\* never get the same number.
C10_CollisionFree ==
  /\ Len(n_nums) = n_pos
  /\ \A k \in 1..Len(n_nums) : n_nums[k] # ""
  /\ \A a, b \in 1..Len(n_nums) : a # b => n_nums[a] # n_nums[b]

C10_Witness ==
  /\ n_style = "letters"
  /\ n_pos > 26
  /\ n_nums[1] = "A"
  /\ n_nums[27] = "AA"

(***************************************************************************)
(* Results of a run and their transfer to the session                      *)
(***************************************************************************)
\* the Result of a finished run came to the session through the
\* is_complete branch of the presenter
Transferred ==
  /\ ui.stage = "complete"
  /\ ~session.processing_complete
  /\ result # Unset

\* recs holds one record per materialized input file, in input order
OnePerInput(recs) ==
  /\ Len(recs) = Len(file_paths)
  /\ \A k \in 1..Len(recs) : recs[k].filename = file_paths[k].name

\* C11: on successful completion the Result carries the exhibit list, one
\* record per materialized input file in input order, and after the
\* presenter's transfer the session's exhibit_list holds the same records.
C11_ResultCarriesExhibits ==
  /\ overall_status = "complete" =>
       /\ OnePerInput(result.exhibits)
       /\ result.exhibits = exhibit_list
  /\ Transferred =>
       /\ OnePerInput(session.exhibit_list)
       /\ session.exhibit_list = result.exhibits

(***************************************************************************)
(* Extract                                                                 *)
(***************************************************************************)
UsablePath(z) == z.isabs /\ z.exists

\* the working files of the inputs that can be materialized, in input order
RECURSIVE UsableZips(_)
UsableZips(zs) ==
  IF zs = << >> THEN << >>
  ELSE IF UsablePath(Head(zs))
       THEN << [ name |-> Head(zs).name, stem |-> Head(zs).stem,
                 pages |-> Head(zs).pages ] >> \o UsableZips(Tail(zs))
       ELSE UsableZips(Tail(zs))

Materializable == files \o UsableZips(zip_files)

ZipDiagnostics(z) == { "Invalid zip file path: " \o z.name,
                       "Zip file not found: " \o z.name }

\* C12: an archive-extracted path that is missing or invalid never aborts
\* the run: its diagnostic becomes the extract step's error message, the
\* item is left out, and every other input is materialized and processed.
C12_BadArchivePathSkipped ==
  /\ (pc = "extract_loop" /\ idx > Len(files)) =>
       LET z == zip_files[idx - Len(files)] IN
         ~UsablePath(z) =>
            /\ steps["extract"].status = "error"
            /\ steps["extract"].error_message \in ZipDiagnostics(z)
  /\ faults = {} => pc # "raise" /\ overall_status # "error"
  /\ steps["extract"].status = "complete" => file_paths = Materializable
  /\ (pc = "done" /\ faults = {}) =>
       /\ overall_status = "complete"
       /\ Len(exhibit_list) = Len(Materializable)
       /\ \A k \in 1..Len(exhibit_list) :
            exhibit_list[k].filename = Materializable[k].name

C12_Witness ==
  /\ pc = "done"
  /\ overall_status = "complete"
  /\ Len(files) = 1
  /\ Len(zip_files) = 1
  /\ ~UsablePath(zip_files[1])
  /\ Len(exhibit_list) = 1

\* C13: while extract is running its progress is the fraction of all items
\* (uploaded files and archive-extracted paths together) materialized so
\* far, and it is 100 only when the last item has been materialized.
C13_ExtractProgressFraction ==
  (pc = "extract_loop" /\ steps["extract"].status = "running") =>
     LET total == Len(files) + Len(zip_files) IN
       /\ total > 0 =>
            steps["extract"].progress = (Len(file_paths) * 100) \div total
       /\ steps["extract"].progress = 100 => Len(file_paths) = total

(***************************************************************************)
(* Progress                                                                *)
(***************************************************************************)
\* the percent the next iteration of the current per-item loop passes to
\* set_step_progress
NextPercent ==
  CASE pc = "extract_loop" /\ idx < Len(files) ->
         ItemProgress(idx, Max(Len(files), 1))
    [] pc \in { "compress_loop", "number_loop" } /\ idx < Len(file_paths) ->
         ItemProgress(idx, Len(file_paths))
    [] OTHER -> 0

C14_InRange ==
  /\ NextPercent \in 0..100
  /\ \A n \in StepNames : steps[n].progress \in 0..100

C14_NotDecreasing ==
  \A n \in StepNames :
    (steps[n].status = "running" /\ steps'[n].status = "running") =>
       steps'[n].progress >= steps[n].progress

\* C14: for every step, the progress values the pipeline sets while the
\* step is running never decrease and always lie in 0..100.
C14_ProgressMonotone == [](C14_InRange) /\ [][C14_NotDecreasing]_vars

C14_Witness ==
  /\ pc = "compress_loop"
  /\ steps["compress"].status = "running"
  /\ steps["compress"].progress = 50
  /\ steps["extract"].progress = 100

(***************************************************************************)
(* Number                                                                  *)
(***************************************************************************)
\* the numbered copies among numbered_files, without the table of contents
ExhibitFiles == SelectSeq(numbered_files, LAMBDA n : n.kind = "exhibit")

FaultAt(site, i) == [ site |-> site, item |-> i ] \in faults

\* C15: a fault in AI labeling or content analysis of one file never aborts
\* the run: that exhibit keeps its file-name-derived title, has no analysis
\* attached, and the number step goes on to produce its numbered file.
C15_AiFaultContained ==
  /\ \A i \in 0..(Len(file_paths) - 1) :
       (FaultAt("ai", i) /\ ~FaultAt("number", i)) =>
          /\ Len(exhibit_list) > i
          /\ exhibit_list[i + 1].title = file_paths[i + 1].stem
          /\ ~exhibit_list[i + 1].analysis
          /\ Len(ExhibitFiles) > i
          /\ ExhibitFiles[i + 1].src = file_paths[i + 1].name
          /\ ExhibitFiles[i + 1].number = exhibit_list[i + 1].number
  /\ FaultSites \subseteq { "ai" } => pc # "raise" /\ overall_status # "error"
  /\ (pc = "done" /\ FaultSites = { "ai" }) => overall_status = "complete"

C15_Witness ==
  /\ pc = "done"
  /\ overall_status = "complete"
  /\ FaultAt("ai", 0)
  /\ exhibit_list[1].title = "a"
  /\ ExhibitFiles[1].title = "a"

\* C16: when the cover-paginated copy of a file faults, a cover page with
\* the number only is requested; if that succeeds the numbered copy takes
\* its place in the output sequence and the run goes on, if it faults too
\* the run aborts fatally.  A successful run has exactly one numbered file
\* per exhibit record.
C16_CoverFallback ==
  /\ \A i \in 0..(Len(file_paths) - 1) :
       FaultAt("cover_page", i) =>
          /\ Len(exhibit_list) > i
          /\ Len(ExhibitFiles) > i
          /\ ExhibitFiles[i + 1] =
               [ kind |-> "exhibit", src |-> file_paths[i + 1].name,
                 number |-> ExhibitNum(config.numbering_style, i),
                 title |-> None ]
  /\ FaultSites \subseteq { "cover_page" } =>
       pc # "raise" /\ overall_status # "error"
  /\ "number" \in FaultSites =>
       /\ pc \in { "raise", "done" }
       /\ overall_status # "complete"
       /\ result = Unset
  /\ overall_status = "complete" =>
       /\ Len(ExhibitFiles) = Len(exhibit_list)
       /\ \A k \in 1..Len(exhibit_list) :
            /\ ExhibitFiles[k].src = exhibit_list[k].filename
            /\ ExhibitFiles[k].number = exhibit_list[k].number

C16_Witness ==
  /\ pc = "done"
  /\ overall_status = "complete"
  /\ FaultAt("cover_page", 0)
  /\ Len(exhibit_list) = 2
  /\ ExhibitFiles[1].title = None
  /\ ExhibitFiles[2].title # None

(***************************************************************************)
(* Table of contents, cover letter, merge                                  *)
(***************************************************************************)
\* the package is the merge of `parts`
Merged == res.output_file # Unset /\ res.output_file.kind = "merged"

TocOffset == IF config.add_toc THEN 1 ELSE 0

\* position k of file_paths is the numbered file n
NumberedCopyOf(n, k) ==
  /\ n.kind = "exhibit"
  /\ n.src = file_paths[k].name
  /\ n.number = ExhibitNum(config.numbering_style, k - 1)

\* C17: when merging is requested and a numbered file exists, the sequence
\* handed to the merge is the table of contents first (exactly when the
\* table of contents is enabled), then the numbered files in input order,
\* none missing and none repeated.
C17_MergeSequence ==
  Merged =>
    LET parts == res.output_file.parts IN
      /\ config.merge_pdfs
      /\ Len(parts) = TocOffset + Len(file_paths)
      /\ config.add_toc => parts[1] = TocFile
      /\ \A k \in 1..Len(file_paths) : NumberedCopyOf(parts[TocOffset + k], k)

C17_Witness ==
  /\ Merged
  /\ overall_status = "complete"
  /\ config.add_toc
  /\ Len(res.output_file.parts) = 3

\* C18: a fault while rendering the cover letter never aborts the run, and
\* the Result's cover_letter_path is present exactly when cover-letter
\* generation was enabled and succeeded, unset otherwise.
C18_CoverLetterContained ==
  /\ FaultSites \subseteq { "cover" } =>
       pc # "raise" /\ overall_status # "error"
  /\ (pc = "done" /\ FaultSites = { "cover" }) => overall_status = "complete"
  /\ result # Unset =>
       (result.cover_letter_path # None
          <=> (config.add_cover_letter /\ "cover" \notin FaultSites))

C18_Witness ==
  /\ overall_status = "complete"
  /\ config.add_cover_letter
  /\ "cover" \in FaultSites
  /\ result.cover_letter_path = None
  /\ Len(exhibit_list) = 1

\* C19: when merging is not requested and an exhibit exists, output_file is
\* a copy of the first numbered exhibit, the numbered file of the first
\* input, for every setting of the table-of-contents toggle.
C19_UnmergedFirstExhibit ==
  (~config.merge_pdfs /\ overall_status = "complete"
     /\ Len(exhibit_list) > 0) =>
       /\ result.output_file # Unset
       /\ result.output_file.kind = "copy"
       /\ Len(result.output_file.parts) = 1
       /\ NumberedCopyOf(result.output_file.parts[1], 1)

(***************************************************************************)
(* Presenter and worker                                                    *)
(***************************************************************************)
\* a worker is between its start and its return or raise
WorkerLive == pc \notin { "idle", "done" }

\* C20: under any sequence of presenter renders and button clicks in the
\* Generate stage, generate_exhibits_v2 is never executed while a run is
\* running: the Processing State of a live run is never reset and at most
\* one worker is in flight.
C20_NoStartOverLiveRun ==
  /\ ~ui.overlap
  /\ WorkerLive <=> is_running

C20_Witness ==
  /\ WorkerLive
  /\ pc # "mkdtemp"
  /\ ui.at = "is_running"
  /\ ui.click = "retry"

(***************************************************************************)
(* Leaving the Generate stage                                              *)
(***************************************************************************)
\* C21: whenever the presenter leaves the Generate stage for the Complete
\* stage after a successful run, the Result's output_file,
\* cover_letter_path and filing_instructions_path are in the session
\* state, whichever branch observed the completion first.
C21_TransferredOnLeave ==
  (ui.stage = "complete" /\ overall_status = "complete") =>
     /\ session.output_file = result.output_file
     /\ session.cover_letter_path = result.cover_letter_path
     /\ session.filing_instructions_path = result.filing_instructions_path

(***************************************************************************)
(* What the worker writes                                                  *)
(***************************************************************************)
\* C22: the Processing State is the only state written by the worker that
\* the presenter can read: while a run is running, none of the session
\* values exhibit_list, compression_stats, exhibits_generated changes.
C22_WorkerLeavesSession ==
  [][ is_running =>
        /\ session'.exhibit_list = session.exhibit_list
        /\ session'.compression_stats = session.compression_stats
        /\ session'.exhibits_generated = session.exhibits_generated ]_vars

(***************************************************************************)
(* Compression figures                                                     *)
(***************************************************************************)
\* (1 - compressed/original) as a percentage, 0 without an original size
ReductionOf(original, compressed) ==
  IF original > 0 THEN 100 - (compressed * 100) \div original ELSE 0

\* C23: after a successful run in which compression ran, the reduction
\* figure persisted for the run and shown by the presenter after it
\* transferred the Result is (1 - compressed_size/original_size) as a
\* percentage when original_size > 0, and 0 otherwise.
C23_ReductionShown ==
  (overall_status = "complete" /\ Len(compression_results) > 0
     /\ ui.stage = "complete") =>
       /\ session.compression_stats # Unset
       /\ session.compression_stats.avg_reduction =
            ReductionOf(result.original_size, result.compressed_size)

(***************************************************************************)
(* Retry                                                                   *)
(***************************************************************************)
\* C24: after a fatal failure, reset followed by start_processing gives a
\* clean retry: the retry run materializes each uploaded file with the
\* bytes the first run wrote, and no step status, Result or error of the
\* failed run is visible in the new run.
C24_CleanRetry ==
  /\ \A k \in 1..Len(io.written) : io.written[k] = Bytes(files[k])
  /\ pc = "mkdtemp" =>
       /\ steps = NoSteps
       /\ result = Unset
       /\ error_message = None
       /\ overall_status = "running"

\* C25: with compression enabled, the compression info attached to
\* exhibit i, if any, is the result of compressing file i, and an exhibit
\* whose file's compression did not succeed has no compression info,
\* wherever in the input list that file is.
C25_CompressionInfoAligned ==
  \A k \in 1..Len(exhibit_list) :
    LET info == exhibit_list[k].compression IN
      /\ info # Unset =>
           /\ ~FaultAt("compress_failed", k - 1)
           /\ info.reduction = ReductionPercent(file_paths[k])
      /\ FaultAt("compress_failed", k - 1) => info = Unset

(***************************************************************************)
(* The working set                                                         *)
(***************************************************************************)
\* the extract loops are over and file_paths is final
Extracted == pc = "compress"

\* the part of file_paths that comes from archive paths
FromArchive == SubSeq(file_paths, Len(files) + 1, Len(file_paths))

C28_DistinctWorkingFiles ==
  Extracted =>
    /\ \A i, j \in 1..Len(file_paths) :
         i # j => file_paths[i].name # file_paths[j].name
    /\ Cardinality(io.disk) = Len(file_paths)

\* C27: every PDF found in an uploaded ZIP and recorded in zip_files still
\* exists at its recorded path when the extract step of a later run reads
\* it, so each recorded path becomes a working file (and so an exhibit).
C27_RecordedPathsExtracted ==
  /\ \A k \in 1..Len(zip_files) : zip_files[k].exists
  /\ Extracted =>
       FromArchive = [ k \in 1..Len(zip_files) |-> WorkFile(zip_files[k]) ]

(***************************************************************************)
(* Regeneration                                                            *)
(***************************************************************************)
\* a run has just been started by generate_exhibits_v2
RunStarted == pc = "mkdtemp"

\* C29: after a run has completed, the user can still start a new run in
\* the same session: from the Complete stage the presenter interactions
\* lead to generate_exhibits_v2 again.
C29_RegenerationReachable == (ui.stage = "complete") ~> RunStarted

(***************************************************************************)
(* Deleting an uploaded file                                               *)
(***************************************************************************)
\* the list s is the list t without its entry at position i (from 0)
Without(s, t, i) ==
  /\ Len(s) = Len(t) - 1
  /\ \A k \in 1..Len(s) : s[k] = t[IF k <= i THEN k ELSE k + 1]

\* the index `now` follows the file that `was` pointed to before entry i
\* was deleted: None stays None, the deleted file gives None, another
\* file is still pointed to
Follows(now, was, i, filesBefore) ==
  IF was = Nil THEN now = Nil
  ELSE IF IntOf(was) = i THEN now = Nil
  ELSE /\ now = Some(IF IntOf(was) < i THEN IntOf(was) ELSE IntOf(was) - 1)
       /\ files[IntOf(now) + 1] = filesBefore[IntOf(was) + 1]

ValidIndex(index, list) ==
  IsInt(index) /\ 0 <= IntOf(index) /\ IntOf(index) < Len(list)

\* C30: delete_file(idx) with a valid idx removes exactly entry idx from
\* uploaded_files and from uploaded_meta, which stay of the same length and
\* aligned; an index (preview_file_index, selected_upload_index) that
\* pointed to another file points to that file afterwards, one that pointed
\* to the deleted file is None; with an invalid idx nothing changes.
C30_DeleteFile ==
  up.before.called =>
    LET b == up.before IN
      IF ValidIndex(b.idx, b.uploaded_files)
      THEN /\ Without(files, b.uploaded_files, IntOf(b.idx))
           /\ Without(up.uploaded_meta, b.uploaded_meta, IntOf(b.idx))
           /\ Len(up.uploaded_meta) = Len(files)
           /\ \A k \in 1..Len(files) : up.uploaded_meta[k] = MetaOf(files[k])
           /\ Follows(up.preview_file_index, b.preview_file_index,
                      IntOf(b.idx), b.uploaded_files)
           /\ Follows(up.selected_upload_index, b.selected_upload_index,
                      IntOf(b.idx), b.uploaded_files)
      ELSE /\ files = b.uploaded_files
           /\ up.uploaded_meta = b.uploaded_meta
           /\ up.preview_file_index = b.preview_file_index
           /\ up.selected_upload_index = b.selected_upload_index

\* a file in front of the previewed and selected one has been deleted
C30_Witness ==
  /\ up.before.called
  /\ ValidIndex(up.before.idx, up.before.uploaded_files)
  /\ up.before.preview_file_index # Nil
  /\ IntOf(up.before.preview_file_index) > IntOf(up.before.idx)
  /\ up.before.selected_upload_index # Nil
  /\ IntOf(up.before.selected_upload_index) > IntOf(up.before.idx)
  /\ Len(files) >= 2

====
